---- MODULE Spec2Model ----
(***************************************************************************)
(* facturacion-backend: the Express/Mongoose invoicing service.            *)
(*                                                                         *)
(* The model covers src/server.js (product routes, POST /facturas and      *)
(* GET /facturas/:id) and src/middleware/auth.js (authenticateToken,       *)
(* authorizeRoles).  Every `await` of a handler is a suspension point, so  *)
(* POST /facturas is one action per awaited storage operation; a product   *)
(* route awaits a single storage operation and is one action.              *)
(*                                                                         *)
(* Not modelled: Cliente (clienteId is stored and never read by the        *)
(* workflow), the fecha default, and login/registration (a verified token  *)
(* is represented by the role it carries).                                 *)
(***************************************************************************)
EXTENDS Integers, Sequences, FiniteSets

\* ---------------------------------------------------------------- bounds
MaxProducts == 2    \* ObjectIds the Producto collection can hand out
MaxCantidad == 2    \* largest quantity in a request body or a product body
MaxPrecio   == 2    \* largest price in a request body or a product body
MaxLines    == 2    \* longest `detalles` list of a POST /facturas body
MaxRequests == 2    \* POST /facturas requests that can be in flight at once

ProdIds  == 1..MaxProducts
ReqIds   == 1..MaxRequests
Precios  == 1..MaxPrecio
\* quantities a client may send for a product; -1 is the negative case
Cantidades == (0..MaxCantidad) \cup {-1}

VARIABLES
    productos,        \* Producto collection: id -> document (existe = FALSE: no such document)
    nextId,           \* next fresh ObjectId of the Producto collection
    facturas,         \* Factura collection, in insertion order; _id = position
    detalleFacturas,  \* DetalleFactura collection, in insertion order
    peticiones,       \* the POST /facturas handlers: locals and position of each
    resp,             \* the last response of a product route
    inicial           \* history: the Producto collection at start-up

vars == <<productos, nextId, facturas, detalleFacturas, peticiones, resp, inicial>>

\* ------------------------------------------------------------- documents
NoProducto == [existe |-> FALSE, precio |-> 0, cantidad |-> 0]
NuevoProducto(p, c) == [existe |-> TRUE, precio |-> p, cantidad |-> c]

\* productoSchema: cantidad: { type: Number, min: 0 }; run by save(), not by
\* findByIdAndUpdate (Mongoose update validators are off unless runValidators is set)
productoSchemaValida(doc) == doc.cantidad >= 0

\* one element of req.body.detalles.  Its third field, precio, is read once, where
\* the DetalleFactura is built, and is an input of that step (SaveDetalle)
Detalle == [productoId : ProdIds, cantidad : 1..MaxCantidad]
Bodies  == UNION {[1..n -> Detalle] : n \in 0..MaxLines}

\* ------------------------------------------------------------ middleware
Roles == {"facturador", "gestionador", "admin"}
\* the Authorization header: absent, a token jwt.verify rejects, or a verified
\* token, written as the role in its payload
Creds == {"none", "invalid"} \cup Roles

\* 0 stands for next(); any other value is the status the middleware answers
authenticateToken(cred) ==
    IF cred = "none" THEN 401
    ELSE IF cred = "invalid" THEN 403
    ELSE 0

\* a role check that lets every verified token through
authorizeRolesSinComprobar(roles, role) == 0

authorizeRoles(roles, role) ==
    IF role \notin roles THEN 403 ELSE 0

\* the role lists given to authorizeRoles where each product route is declared
RouteRoles(route) ==
    CASE route = "GET /productos"    -> {"facturador", "gestionador", "admin"}
      [] route = "POST /productos"   -> {"gestionador", "admin"}
      [] route = "PUT /productos"    -> {"admin"}
      [] route = "DELETE /productos" -> {"admin"}

ProductRoutes == {"GET /productos", "POST /productos", "PUT /productos", "DELETE /productos"}

\* status the middleware chain of a product route answers, 0 when the handler runs
Gate(route, cred) ==
    LET a == authenticateToken(cred) IN
    IF a # 0 THEN a ELSE authorizeRoles(RouteRoles(route), cred)

NoResp == [route |-> "", cred |-> "none", status |-> 0, ran |-> FALSE, changed |-> FALSE]

\* ------------------------------------------------------- request handlers
\* `antes` is history: the Producto collection as the request found it on arrival.
\* `decrementos` is history: the stock decrements the request has written.
SinFoto == [p \in ProdIds |-> NoProducto]

Idle == [pc |-> "idle", detalles |-> <<>>, i |-> 0, total |-> 0,
         producto |-> [id |-> 0, cantidad |-> 0],
         facturaId |-> 0, status |-> 0, error |-> "",
         decrementos |-> 0, antes |-> SinFoto]

\* res.status(s).json(...): the handler's locals die with it; the response stays
Responder(pet, s, e) ==
    [Idle EXCEPT !.pc = "done", !.status = s, !.error = e,
                 !.facturaId = pet.facturaId,
                 !.decrementos = pet.decrementos]

TypeOK ==
    /\ nextId \in 1..(MaxProducts + 1)
    /\ \A p \in ProdIds : productos[p].existe \in BOOLEAN

Init ==
    /\ productos = [p \in ProdIds |-> NoProducto]
    /\ nextId = 1
    /\ facturas = <<>>
    /\ detalleFacturas = <<>>
    /\ peticiones = [r \in ReqIds |-> Idle]
    /\ resp = NoResp
    /\ inicial = productos

\* ---------------------------------------------------------- product routes
\* what a product route answers and whether its handler ran
Respuesta(route, cred, status, nuevos) ==
    [route |-> route, cred |-> cred, status |-> status,
     ran |-> (Gate(route, cred) = 0), changed |-> (nuevos # productos)]

\* a middleware answers and the handler is never called
Rechazar(route, cred) ==
    /\ Gate(route, cred) # 0
    /\ resp' = Respuesta(route, cred, Gate(route, cred), productos)
    /\ UNCHANGED <<productos, nextId, facturas, detalleFacturas, peticiones, inicial>>

\* app.get('/productos', ...): Producto.find(); `falla` is the storage rejecting
GetProductos(cred) ==
    \/ Rechazar("GET /productos", cred)
    \/ /\ Gate("GET /productos", cred) = 0
       /\ \E falla \in BOOLEAN :
             resp' = Respuesta("GET /productos", cred, IF falla THEN 500 ELSE 200, productos)
       /\ UNCHANGED <<productos, nextId, facturas, detalleFacturas, peticiones, inicial>>

PostBodies == [precio : Precios, cantidad : Cantidades]

\* app.post('/productos', ...): new Producto(req.body).save()
PostProductos(cred) ==
    \/ Rechazar("POST /productos", cred)
    \/ /\ Gate("POST /productos", cred) = 0
       /\ \E body \in PostBodies, falla \in BOOLEAN :
             LET doc == NuevoProducto(body.precio, body.cantidad)
                 ok  == ~falla /\ productoSchemaValida(doc)
                 nuevos == IF ok THEN [productos EXCEPT ![nextId] = doc] ELSE productos
             IN
             /\ ok => nextId \in ProdIds
             /\ productos' = nuevos
             /\ nextId' = IF ok THEN nextId + 1 ELSE nextId
             /\ resp' = Respuesta("POST /productos", cred, IF ok THEN 200 ELSE 500, nuevos)
       /\ UNCHANGED <<facturas, detalleFacturas, peticiones, inicial>>

PutBodies == [campo : {"cantidad"}, valor : Cantidades] \cup [campo : {"precio"}, valor : Precios]

\* the fields a PUT body sets on the document
Actualizado(doc, body) ==
    IF body.campo = "cantidad" THEN [doc EXCEPT !.cantidad = body.valor]
    ELSE [doc EXCEPT !.precio = body.valor]

\* app.put('/productos/:id', ...): Producto.findByIdAndUpdate(id, req.body, { new: true })
PutProducto(cred) ==
    \/ Rechazar("PUT /productos", cred)
    \/ /\ Gate("PUT /productos", cred) = 0
       /\ \E id \in ProdIds, body \in PutBodies, falla \in BOOLEAN :
             LET nuevos == IF ~falla /\ productos[id].existe
                           THEN [productos EXCEPT ![id] = Actualizado(productos[id], body)]
                           ELSE productos
             IN
             /\ productos' = nuevos
             /\ resp' = Respuesta("PUT /productos", cred, IF falla THEN 500 ELSE 200, nuevos)
       /\ UNCHANGED <<nextId, facturas, detalleFacturas, peticiones, inicial>>

\* app.delete('/productos/:id', ...): Producto.findByIdAndDelete(id)
DeleteProducto(cred) ==
    \/ Rechazar("DELETE /productos", cred)
    \/ /\ Gate("DELETE /productos", cred) = 0
       /\ \E id \in ProdIds, falla \in BOOLEAN :
             LET nuevos == IF falla THEN productos
                           ELSE [productos EXCEPT ![id] = NoProducto]
             IN
             /\ productos' = nuevos
             /\ resp' = Respuesta("DELETE /productos", cred, IF falla THEN 500 ELSE 200, nuevos)
       /\ UNCHANGED <<nextId, facturas, detalleFacturas, peticiones, inicial>>

\* ------------------------------------------------------------ POST /facturas
\* the request arrives: const { clienteId, detalles } = req.body; let total = 0;
\* and the handler runs up to its first await
Start(r, body) ==
    /\ peticiones[r].pc = "idle"
    /\ peticiones' = [peticiones EXCEPT ![r] =
           [Idle EXCEPT !.pc = IF Len(body) = 0 THEN "saveFactura" ELSE "find",
                        !.detalles = body, !.i = 1, !.antes = productos]]
    /\ UNCHANGED <<productos, nextId, facturas, detalleFacturas, resp, inicial>>

\* total += producto.precio * detalle.cantidad
Importe(producto, detalle) == producto.precio * detalle.cantidad

\* a decrement by one unit instead of by the requested quantity
DescontadoUno(producto, detalle) == producto.cantidad - 1

\* producto.cantidad -= detalle.cantidad
Descontado(producto, detalle) == producto.cantidad - detalle.cantidad

\* await Producto.findById(detalle.productoId) resolves; the two checks, the
\* total and the in-memory decrement run before the next await
FindById(r) ==
    LET pet == peticiones[r]
        detalle == pet.detalles[pet.i]
        producto == productos[detalle.productoId]
    IN
    /\ pet.pc = "find"
    /\ peticiones' = [peticiones EXCEPT ![r] =
           IF ~producto.existe THEN Responder(pet, 400, "ProductoNoEncontrado")
           ELSE IF producto.cantidad < detalle.cantidad
                THEN Responder(pet, 400, "StockInsuficiente")
           ELSE [pet EXCEPT !.pc = "save",
                            !.total = pet.total + Importe(producto, detalle),
                            !.producto = [id |-> detalle.productoId,
                                          cantidad |-> Descontado(producto, detalle)]]]
    /\ UNCHANGED <<productos, nextId, facturas, detalleFacturas, resp, inicial>>

\* the position after the stock loop's i-th save
TrasGuardar(pet) ==
    [pet EXCEPT !.pc = IF pet.i = Len(pet.detalles) THEN "saveFactura" ELSE "find",
                !.i = IF pet.i = Len(pet.detalles) THEN 1 ELSE pet.i + 1,
                !.decrementos = pet.decrementos + 1]

\* await producto.save() resolves: the validators run, then the modified path
\* (cantidad) is written to the stored document
SaveProducto(r) ==
    LET pet == peticiones[r]
        id  == pet.producto.id
    IN
    /\ pet.pc = "save"
    /\ IF ~productoSchemaValida(pet.producto)
       THEN /\ peticiones' = [peticiones EXCEPT ![r] = Responder(pet, 500, "ValidationError")]
            /\ UNCHANGED productos
       ELSE IF ~productos[id].existe
       THEN \* the document was deleted since it was read: nothing is written, and
            \* save() rejects (DocumentNotFoundError) or resolves, by Mongoose version
            /\ \/ peticiones' = [peticiones EXCEPT ![r] = Responder(pet, 500, "DocumentNotFound")]
               \/ peticiones' = [peticiones EXCEPT ![r] = [TrasGuardar(pet) EXCEPT !.decrementos = pet.decrementos]]
            /\ UNCHANGED productos
       ELSE /\ productos' = [productos EXCEPT ![id].cantidad = pet.producto.cantidad]
            /\ peticiones' = [peticiones EXCEPT ![r] = TrasGuardar(pet)]
    /\ UNCHANGED <<nextId, facturas, detalleFacturas, resp, inicial>>

\* await nuevaFactura.save() resolves
SaveFactura(r) ==
    LET pet == peticiones[r]
        nuevaFactura == [total |-> pet.total]
        conId == [pet EXCEPT !.facturaId = Len(facturas) + 1]
    IN
    /\ pet.pc = "saveFactura"
    /\ facturas' = Append(facturas, nuevaFactura)
    /\ peticiones' = [peticiones EXCEPT ![r] =
           IF Len(pet.detalles) = 0 THEN Responder(conId, 200, "")
           ELSE [conId EXCEPT !.pc = "saveDetalle", !.i = 1]]
    /\ UNCHANGED <<productos, nextId, detalleFacturas, resp, inicial>>

\* await new DetalleFactura({...}).save() resolves for the i-th detalle, whose
\* caller-supplied detalle.precio is `precio`
SaveDetalle(r, precio) ==
    LET pet == peticiones[r]
        detalle == pet.detalles[pet.i]
    IN
    /\ pet.pc = "saveDetalle"
    /\ detalleFacturas' = Append(detalleFacturas,
           [facturaId |-> pet.facturaId, productoId |-> detalle.productoId,
            cantidad |-> detalle.cantidad, precio |-> precio])
    /\ peticiones' = [peticiones EXCEPT ![r] =
           IF pet.i = Len(pet.detalles) THEN Responder(pet, 200, "")
           ELSE [pet EXCEPT !.i = pet.i + 1]]
    /\ UNCHANGED <<productos, nextId, facturas, resp, inicial>>

\* the awaited storage operation rejects: catch (error) { res.status(500)... }
StorageFailure(r) ==
    LET pet == peticiones[r] IN
    /\ pet.pc \in {"find", "save", "saveFactura", "saveDetalle"}
    /\ peticiones' = [peticiones EXCEPT ![r] = Responder(pet, 500, "StorageError")]
    /\ UNCHANGED <<productos, nextId, facturas, detalleFacturas, resp, inicial>>

\* DetalleFactura.find({ facturaId: id })
DetallesDe(coleccion, id) == SelectSeq(coleccion, LAMBDA d : d.facturaId = id)

\* app.get('/facturas/:id', ...): the invoice and the lines that reference it
GetFactura(id) ==
    [factura  |-> facturas[id],
     detalles |-> DetallesDe(detalleFacturas, id)]

\* ------------------------------------------------------------ specifications
ProductoNext ==
    \E cred \in Creds :
        \/ GetProductos(cred)
        \/ PostProductos(cred)
        \/ PutProducto(cred)
        \/ DeleteProducto(cred)

FacturaNext(r) ==
    \/ \E body \in Bodies : Start(r, body)
    \/ FindById(r)
    \/ SaveProducto(r)
    \/ SaveFactura(r)
    \/ \E precio \in Precios : SaveDetalle(r, precio)

\* a database left by earlier product requests: every id handed out, each
\* document deleted or valid under productoSchema
Catalogos ==
    [ProdIds -> {NoProducto} \cup
                {NuevoProducto(p, c) : p \in Precios, c \in 0..MaxCantidad}]

InitCatalogo ==
    /\ productos \in Catalogos
    /\ nextId = MaxProducts + 1
    /\ facturas = <<>>
    /\ detalleFacturas = <<>>
    /\ peticiones = [r \in ReqIds |-> Idle]
    /\ resp = NoResp
    /\ inicial = productos

EnVuelo(r) == peticiones[r].pc \notin {"idle", "done"}

\* the whole service: every route, interleaved at every await
Next ==
    \/ ProductoNext
    \/ \E r \in ReqIds : FacturaNext(r) \/ StorageFailure(r)

Spec == Init /\ [][Next]_vars

\* Three restrictions of Spec, each small enough to explore in full.  The
\* databases InitCatalogo starts from are those the product routes of Spec reach.

\* the product routes alone, from an empty database
SpecProductos == Init /\ [][ProductoNext]_vars

\* POST /facturas requests one after the other, the storage never failing
NextSeq ==
    \E r \in ReqIds :
        \/ (\A q \in ReqIds : ~EnVuelo(q)) /\ \E body \in Bodies : Start(r, body)
        \/ FindById(r)
        \/ SaveProducto(r)
        \/ SaveFactura(r)
        \/ \E precio \in Precios : SaveDetalle(r, precio)

SpecSeq == InitCatalogo /\ [][NextSeq]_vars

\* POST /facturas requests interleaved at every await, the storage free to fail
NextRace ==
    \E r \in ReqIds : FacturaNext(r) \/ StorageFailure(r)

SpecRace == InitCatalogo /\ [][NextRace]_vars

\* ------------------------------------------------------------------ claims
RECURSIVE Pedido(_, _)
\* the total quantity a detalles list asks of product p
Pedido(detalles, p) ==
    IF detalles = <<>> THEN 0
    ELSE (IF Head(detalles).productoId = p THEN Head(detalles).cantidad ELSE 0)
         + Pedido(Tail(detalles), p)

RECURSIVE TotalEsperado(_, _)
\* the sum over a detalles list of (stored unit price x requested quantity)
TotalEsperado(detalles, catalogo) ==
    IF detalles = <<>> THEN 0
    ELSE catalogo[Head(detalles).productoId].precio * Head(detalles).cantidad
         + TotalEsperado(Tail(detalles), catalogo)

RECURSIVE SumaLineas(_)
\* the sum over stored lines of (line unit price x line quantity)
SumaLineas(lineas) ==
    IF lineas = <<>> THEN 0
    ELSE Head(lineas).precio * Head(lineas).cantidad + SumaLineas(Tail(lineas))

\* the step in which request r is answered
Completa(r) == EnVuelo(r) /\ peticiones'[r].pc = "done"

Cantidad(catalogo) == [p \in ProdIds |-> catalogo[p].cantidad]

TodosExisten(pet) ==
    \A k \in 1..Len(pet.detalles) : pet.antes[pet.detalles[k].productoId].existe

StockSuficiente(pet) ==
    \A p \in ProdIds : pet.antes[p].existe => Pedido(pet.detalles, p) <= pet.antes[p].cantidad

\* C1: a POST /facturas request that runs without interference, whose lines all
\* reference existing products with enough stock for what the request asks of
\* them, is answered 200; the stored invoice's total is the sum of stored price x
\* requested quantity, and every product's stock is its stock on arrival minus the
\* quantity requested of it.
C1_TotalYStock ==
    [][\A r \in ReqIds :
          (Completa(r) /\ TodosExisten(peticiones[r]) /\ StockSuficiente(peticiones[r]))
          => LET pet == peticiones[r]
                 fin == peticiones'[r]
             IN /\ fin.status = 200
                /\ fin.facturaId \in 1..Len(facturas')
                /\ facturas'[fin.facturaId].total = TotalEsperado(pet.detalles, pet.antes)
                /\ \A p \in ProdIds :
                      productos'[p].cantidad = pet.antes[p].cantidad - Pedido(pet.detalles, p)]_vars

\* a request of MaxLines lines on a product with stock left over was answered 200
C1_Witness ==
    \E r \in ReqIds :
        /\ peticiones[r].pc = "done"
        /\ peticiones[r].status = 200
        /\ peticiones[r].decrementos = MaxLines
        /\ Len(GetFactura(peticiones[r].facturaId).detalles) = MaxLines
        /\ GetFactura(peticiones[r].facturaId).factura.total > MaxPrecio

\* C2: a request in which some line asks more than the stock its product had on
\* arrival is answered 400 (insufficient stock when every product exists), and
\* every product's stock is then what it was on arrival.
C2_Claim ==
    [][\A r \in ReqIds :
          (/\ Completa(r)
           /\ \E k \in 1..Len(peticiones[r].detalles) :
                 LET d == peticiones[r].detalles[k] IN
                 peticiones[r].antes[d.productoId].existe
                 /\ d.cantidad > peticiones[r].antes[d.productoId].cantidad)
          => /\ peticiones'[r].status = 400
             /\ TodosExisten(peticiones[r]) => peticiones'[r].error = "StockInsuficiente"
             /\ Cantidad(productos') = Cantidad(peticiones[r].antes)]_vars

\* C3: a request in which some line references a product that does not exist is
\* answered 400 (product not found when no product is asked more than its stock),
\* no product's stock changes, and no Factura and no DetalleFactura is created.
C3_Claim ==
    [][\A r \in ReqIds :
          (Completa(r) /\ ~TodosExisten(peticiones[r]))
          => /\ peticiones'[r].status = 400
             /\ StockSuficiente(peticiones[r]) => peticiones'[r].error = "ProductoNoEncontrado"
             /\ Cantidad(productos') = Cantidad(peticiones[r].antes)
             /\ peticiones'[r].facturaId = 0
             /\ facturas' = facturas
             /\ detalleFacturas' = detalleFacturas]_vars

RECURSIVE VendidoEn(_, _)
\* the quantity of product p on the stored lines of a list
VendidoEn(lineas, p) ==
    IF lineas = <<>> THEN 0
    ELSE (IF Head(lineas).productoId = p THEN Head(lineas).cantidad ELSE 0)
         + VendidoEn(Tail(lineas), p)

Exitosas == {r \in ReqIds : peticiones[r].pc = "done" /\ peticiones[r].status = 200}

RECURSIVE SumaVendido(_, _)
\* the quantity of product p sold by the requests of a set, read from their invoices
SumaVendido(rs, p) ==
    IF rs = {} THEN 0
    ELSE LET r == CHOOSE x \in rs : TRUE IN
         VendidoEn(GetFactura(peticiones[r].facturaId).detalles, p) + SumaVendido(rs \ {r}, p)

\* C4: with requests interleaved at every await, the quantity of a product sold by
\* the requests answered 200 never exceeds the product's stock at start-up.
C4_Claim ==
    \A p \in ProdIds :
        inicial[p].existe => SumaVendido(Exitosas, p) <= inicial[p].cantidad

\* what a reader finds of request r: all of it, or nothing of it
TodoONada(r) ==
    LET pet == peticiones[r]
        lineas == IF pet.facturaId = 0 THEN 0
                  ELSE Len(GetFactura(pet.facturaId).detalles)
    IN
    IF pet.pc = "done"
    THEN IF pet.status = 200
         THEN pet.facturaId # 0 /\ lineas = pet.decrementos
         ELSE pet.decrementos = 0 /\ pet.facturaId = 0
    ELSE \/ pet.decrementos = 0 /\ pet.facturaId = 0
         \/ pet.decrementos = Len(pet.detalles) /\ pet.facturaId # 0
            /\ lineas = Len(pet.detalles)

\* C5: in every state, of each POST /facturas request either all its stock
\* decrements, its Factura and all its DetalleFacturas are stored, or none are; a
\* request that stopped short of 200 has left no decrement behind.
C5_Claim == \A r \in ReqIds : TodoONada(r)

\* C6: every stored product's cantidad is at least zero.
C6_Claim == \A p \in ProdIds : productos[p].existe => productos[p].cantidad >= 0

\* C7: for every request answered 200, the lines GET /facturas/:id returns for
\* its invoice sum (unit price x quantity) to the invoice's stored total.
C7_Claim ==
    \A r \in Exitosas :
        LET visto == GetFactura(peticiones[r].facturaId) IN
        SumaLineas(visto.detalles) = visto.factura.total

\* the roles each product route is meant to admit
Permitidos(route) ==
    CASE route = "GET /productos"    -> {"facturador", "gestionador", "admin"}
      [] route = "POST /productos"   -> {"gestionador", "admin"}
      [] route = "PUT /productos"    -> {"admin"}
      [] route = "DELETE /productos" -> {"admin"}

\* C8: for a verified token, a product route's handler runs only if the token's
\* role is one the route admits; any other role is answered 403 and the Producto
\* collection is left as it was.  A facturador is refused product creation; a
\* gestionador reaches its handler.
C8_SoloRolesPermitidos ==
    (resp.route \in ProductRoutes /\ resp.cred \in Roles)
    => /\ resp.ran => resp.cred \in Permitidos(resp.route)
       /\ resp.cred \notin Permitidos(resp.route)
             => resp.status = 403 /\ ~resp.ran /\ ~resp.changed
       /\ resp.cred \in Permitidos(resp.route) => resp.ran /\ resp.status \in {200, 500}
       /\ resp.changed => resp.ran /\ resp.status = 200

\* a facturador was refused POST /productos while products were stored
C8_Witness ==
    /\ resp.route = "POST /productos"
    /\ resp.cred = "facturador"
    /\ resp.status = 403
    /\ \E p \in ProdIds : productos[p].existe

\* C9: a product route called with no token or with a token that does not verify
\* answers 401 without running its handler or changing anything; 403 is answered
\* only to a verified token whose role the route does not admit.
C9_Claim ==
    resp.route \in ProductRoutes
    => /\ resp.cred \in {"none", "invalid"}
             => resp.status = 401 /\ ~resp.ran /\ ~resp.changed
       /\ resp.status = 403
             => resp.cred \in Roles /\ resp.cred \notin Permitidos(resp.route)

\* C10: when a request of N lines is answered 200, exactly N DetalleFacturas
\* reference its invoice, the k-th with the k-th line's product and quantity and
\* with the product's stored price, the unit price its total was computed with.
C10_Claim ==
    [][\A r \in ReqIds :
          (Completa(r) /\ peticiones'[r].status = 200)
          => LET pet == peticiones[r]
                 lineas == DetallesDe(detalleFacturas', peticiones'[r].facturaId)
             IN /\ Len(lineas) = Len(pet.detalles)
                /\ \A k \in 1..Len(pet.detalles) :
                      /\ lineas[k].productoId = pet.detalles[k].productoId
                      /\ lineas[k].cantidad = pet.detalles[k].cantidad
                      /\ lineas[k].precio = pet.antes[pet.detalles[k].productoId].precio]_vars

====
